---------------------------- MODULE Spec2Model ----------------------------
(***************************************************************************)
(* A model of the realm directory resolver of auc-bnet (package bnet).     *)
(*                                                                         *)
(* The repository holds three revisions of the resolver:                   *)
(*   - src/unnamed/part_001: the eager build.  GetRealmList fetches the    *)
(*     two indexes and lets a pool of `threads` goroutines expand the      *)
(*     connected realms (scrapeConnRealm), then cross-checks the result.   *)
(*   - src/unnamed/part_000: the lazy build.  GetRealmList resolves every  *)
(*     non-root realm with one goroutine each (realmScanner.connRealmID).  *)
(*   - src/pkg/bnet/bnet.go: the sequential revision, whose                *)
(*     ConnectedRealmID searches the remote service on a cache miss.       *)
(* Each revision is one specification over the same variables: SpecEager,  *)
(* SpecLazy, SpecSearch.  SpecRegion applies IsValidRegion, which the      *)
(* three revisions share, to bounded strings.                              *)
(*                                                                         *)
(* Strings the code inspects character by character (the region) are       *)
(* sequences of one-character strings.  Realm slugs are strings.           *)
(***************************************************************************)
EXTENDS Integers, Sequences, FiniteSets, TLC

VARIABLES
    h,          \* the transport (HTTP): the response it gives to each endpoint
    region,     \* the region argument of the call
    pc,         \* where the goroutine that runs GetRealmList stands
    rlr,        \* the decoded realm index (realmListResp.Realms)
    crr,        \* the decoded connected-realm index (ConnectedRealms)
    crCh,       \* eager: the buffered channel of cluster ids, closed once filled
    crc,        \* eager: ConnectedRealmCollection, cluster id -> member slugs
    ar,         \* AllRealmCollection, slug -> realm id
    crRealm,    \* eager: slug -> cluster id
    crcCheck,   \* eager: slug -> number of expansions that list it
    lock,       \* realmScanner.lock
    eg,         \* the errgroup: goroutines started, goroutines running, first error
    wk,         \* the goroutines of the errgroup, named in the order they first run
    ret,        \* what GetRealmList returned
    requests,   \* the endpoints requested from the transport so far
    nreq,       \* the number of transport requests issued so far
    inflight,   \* the units (0: GetRealmList, w: goroutine w) with a request in flight
    lk,         \* eager: the last ConnectedRealmID lookup on the returned directory
    crLookup,   \* lazy, sequential: the cluster ids the connected-realm index references
    m,          \* lazy, sequential: ConnectedRealmCollection, slug -> cluster id
    ch,         \* lazy: the buffered channel of non-root slugs, which is never closed
    slug,       \* lazy: the variable of the range loop, which the goroutines read
    cl,         \* lazy, sequential: the callers of ConnectedRealmCollection.ConnectedRealmID
    panicked,   \* a goroutine panicked or the runtime threw: the process is gone
    valid,      \* the result of a call of IsValidRegion(region)
    rev,        \* what runs: "eager", "lazy", "search", "region", "slug" or "http"
    str,        \* the argument of a call of RealmSlug
    norm,       \* what RealmSlug returned for str, and for that result
    server,     \* the remote service, as BNet's http client meets it
    bget        \* a call of BNet.Get

\* the variables of the lazy and sequential revisions
lazyVars == <<crLookup, m, ch, slug, cl, panicked, valid, rev>>

\* the variables of the eager revision alone
eagerVars == <<crCh, crc, crRealm, crcCheck, lk>>

\* the variables of RealmSlug and of BNet.Get, which are checked on their own
libVars == <<str, norm, server, bget>>

vars == <<h, region, pc, rlr, crr, crCh, crc, ar, crRealm, crcCheck, lock, eg, wk,
          ret, requests, nreq, inflight, lk, crLookup, m, ch, slug, cl, panicked, valid, rev,
          str, norm, server, bget>>

-----------------------------------------------------------------------------
(* Bounds of the model *)

\* the most connected realms the wide connected-realm index references
MaxClusters == 6

\* the longest region string IsValidRegion is applied to
MaxRegionLen == 4

(* Program constants *)

\* a pool that is one worker wider
threads_Wider == 5 + 1

\* the width of the worker pool of the eager build
threads == 5

-----------------------------------------------------------------------------
(* Go maps, as functions whose domain is the set of keys present *)

EmptyMap == [k \in {} |-> 0]

Put(f, k, v) == [x \in (DOMAIN f) \cup {k} |-> IF x = k THEN v ELSE f[x]]

Delete(f, k) == [x \in (DOMAIN f) \ {k} |-> f[x]]

\* a read of a missing key yields the zero value
Lookup(f, k, zero) == IF k \in DOMAIN f THEN f[k] ELSE zero

-----------------------------------------------------------------------------
(* Errors.  Every error value is a record; nil is NoErr.  `unit` tells the *)
(* endpoint whose request failed apart: a cluster id, or the position of a *)
(* realm in the realm index.                                               *)

NoErr == [msg |-> "nil", unit |-> 0]

Err(text, u) == [msg |-> text, unit |-> u]

-----------------------------------------------------------------------------
(* The transport.  A response is a status and a body: "ok" is a 200 with a *)
(* body that decodes, "badjson" a 200 whose body json.Unmarshal rejects,   *)
(* "err" an error returned by HTTP.Get.                                    *)

Resp(st, body) == [st |-> st, body |-> body]

\* an entry {ID, Slug} of a realm list
Realm(id, name) == [ID |-> id, Slug |-> name]

\* A reference URL, by the parts the pattern connected-realm/([0-9]+)\? reads:
\* whether the marker "connected-realm/" is there, what follows it ("none": no
\* digit, "int": the digits of id, "huge": more digits than an int holds) and
\* whether a "?" follows the digits.
Href(marker, digits, id, q) == [marker |-> marker, digits |-> digits, id |-> id, q |-> q]

ClusterHref(id) == Href(TRUE, "int", id, TRUE)

\* regex.FindStringSubmatch(href) # nil
FindStringSubmatch(href) == href.marker /\ href.digits # "none" /\ href.q

\* strconv.Atoi(matches[1]): the value, or an error when it is out of range
Atoi(href) == IF href.digits = "huge" THEN [id |-> 0, err |-> Err("atoi: value out of range", 0)]
              ELSE [id |-> href.id, err |-> NoErr]

\* the endpoints of the remote service
Endpoint(kind, id, name) == [kind |-> kind, id |-> id, slug |-> name]

\* the response of the per-cluster endpoint; an unknown cluster is a 404
ConnRealmResp(tr, id) == Lookup(tr.connRealm, id, Resp("err", <<>>))

-----------------------------------------------------------------------------
(* The realm scanner's lock, a *sync.RWMutex: nil or allocated, the unit   *)
(* that holds it for writing (0: none) and the units that hold it for      *)
(* reading.                                                                *)

NewRWMutex == [ptr |-> "ok", writer |-> 0, readers |-> {}]

NilRWMutex == [ptr |-> "nil", writer |-> 0, readers |-> {}]

\* a lock that excludes nobody
CanLock_Free(l) == l.ptr = "ok"

\* rs.lock.Lock() returns: nobody holds the lock
CanLock(l) == l.ptr = "ok" /\ l.writer = 0 /\ l.readers = {}

-----------------------------------------------------------------------------
(* What GetRealmList returns: a pointer to Realms, and an error *)

NilRealms == [nil |-> TRUE]

NotReturned == [returned |-> FALSE, r |-> NilRealms, err |-> NoErr]

Return(r, err) == [returned |-> TRUE, r |-> r, err |-> err]

\* the eager revision's Realms
EagerRealms(reg, c, a, cr) ==
    [nil |-> FALSE, Region |-> reg, ConnectedRealms |-> c, AllRealms |-> a, crRealm |-> cr]

\* AllRealmCollection.IsValidRealm
IsValidRealm(rc, realmSlug) == realmSlug \in DOMAIN rc

\* Realms.ConnectedRealmID of the eager revision: a read of crRealm
RealmsConnectedRealmID(r, realmSlug) ==
    IF realmSlug \in DOMAIN r.crRealm
    THEN [id |-> r.crRealm[realmSlug], err |-> NoErr]
    ELSE [id |-> -1, err |-> Err("realm not found in region", 0)]

NoLookup == [called |-> FALSE, slug |-> "", id |-> 0, err |-> NoErr]

-----------------------------------------------------------------------------
(* IsValidRegion, the same in the three revisions *)

Min(S) == CHOOSE x \in S : \A y \in S : x <= y

\* strings.Index(s, substr): the position of the first instance of substr in
\* s, counted from 0, or -1
Index(s, substr) ==
    LET hits == {i \in 0..(Len(s) - Len(substr)) : SubSeq(s, i + 1, i + Len(substr)) = substr}
    IN IF hits = {} THEN -1 ELSE Min(hits)

IsValidRegion(reg) ==
    LET i == Index(<<"u", "s", "e", "u">>, reg) IN i = 0 \/ i = 2

us == <<"u", "s">>

eu == <<"e", "u">>

\* the supported region codes
RegionCodes == {us, eu}

\* IsValidRegion has not been called
NotCalled == [called |-> FALSE, result |-> FALSE]

-----------------------------------------------------------------------------
(* RealmSlug and BNet.Get before they are called *)

\* RealmSlug was not called
NotSlugged == [called |-> FALSE, once |-> <<>>, twice |-> <<>>]

\* what the http client meets when it sends a request: an error of Do
\* ("doErr"), a response whose body cannot be read ("readErr"), or a
\* response ("resp"), with its status code
Outcome(kind, code) == [kind |-> kind, code |-> code]

\* the service: the outcomes of the first requests in order, the outcome of
\* every later request, and whether it grants an OAuth token
Server(script, rest, oauth) == [script |-> script, rest |-> rest, oauth |-> oauth]

NoServer == Server(<<>>, Outcome("doErr", 0), FALSE)

\* BNet.Get was not called
NoGet == [pc |-> "idle", n |-> 0, refreshes |-> 0, status |-> 0, headers |-> 0, body |-> 0,
          err |-> NoErr, out |-> [returned |-> FALSE, body |-> 0, headers |-> 0, err |-> NoErr]]

LibIdle == str = <<>> /\ norm = NotSlugged /\ server = NoServer /\ bget = NoGet

-----------------------------------------------------------------------------
(* Helpers on sequences *)

Range(s) == {s[i] : i \in DOMAIN s}

\* the slugs of a realm list, in order
SlugsOf(rs) == [i \in DOMAIN rs |-> rs[i].Slug]

\* the number of entries of s equal to x
Count(s, x) == Cardinality({i \in DOMAIN s : s[i] = x})

-----------------------------------------------------------------------------
(* The eager revision (src/unnamed/part_001)                               *)

\* The parse loop of GetRealmList over crr.ConnectedRealms: the first
\* position whose href matches the pattern and whose digits Atoi rejects,
\* 0 when there is none.
FirstAtoiError(refs) ==
    LET bad == {i \in DOMAIN refs : FindStringSubmatch(refs[i]) /\ Atoi(refs[i]).err # NoErr}
    IN IF bad = {} THEN 0 ELSE CHOOSE i \in bad : \A j \in bad : i <= j

\* The ids the parse loop sends to the channel, in index order: those of the
\* hrefs that match.  An href that does not match is skipped.
RECURSIVE ParsedIDs(_)
ParsedIDs(refs) ==
    IF refs = <<>> THEN <<>>
    ELSE IF FindStringSubmatch(Head(refs))
         THEN <<Atoi(Head(refs)).id>> \o ParsedIDs(Tail(refs))
         ELSE ParsedIDs(Tail(refs))

\* scrapeConnRealm's loop: the first entry with id == 0 or slug == "", 0 when
\* there is none
FirstBlank(rs) ==
    LET bad == {i \in DOMAIN rs : rs[i].ID = 0 \/ rs[i].Slug = ""}
    IN IF bad = {} THEN 0 ELSE CHOOSE i \in bad : \A j \in bad : i <= j

\* scrapeConnRealm's loop: c[connRealmId] with the slugs of the first n
\* entries appended
ScrapeAppend(c, connRealmId, rs, n) ==
    IF n = 0 THEN c
    ELSE Put(c, connRealmId,
             Lookup(c, connRealmId, <<>>) \o [i \in 1..n |-> rs[i].Slug])

\* MergeCheck with crcCheck[r] = 1 in place of crcCheck[r]++
MergeCheck_Assign(chk, realms) ==
    [s \in (DOMAIN chk) \cup Range(realms) |-> IF s \in Range(realms) THEN 1 ELSE chk[s]]

\* the worker's loop under the lock: crcCheck[r]++ for every r of realms
MergeCheck(chk, realms) ==
    [s \in (DOMAIN chk) \cup Range(realms) |-> Lookup(chk, s, 0) + Count(realms, s)]

\* the worker's loop under the lock: crRealm[r] = c for every r of realms
MergeCrRealm(cr, realms, c) ==
    [s \in (DOMAIN cr) \cup Range(realms) |-> IF s \in Range(realms) THEN c ELSE cr[s]]

\* SettleOne with the entry deleted when it is <= 0
SettleOne_AtMost(chk, key) ==
    LET v == Lookup(chk, key, 0) - 1
    IN IF v <= 0 THEN Delete(chk, key) ELSE Put(chk, key, v)

\* the cross-check's step for one realm: crcCheck[slug]--, and the entry is
\* deleted when it reaches 0
SettleOne(chk, key) ==
    LET v == Lookup(chk, key, 0) - 1
    IN IF v = 0 THEN Delete(chk, key) ELSE Put(chk, key, v)

\* the cross-check loop over rlr.Realms
RECURSIVE Settle(_, _)
Settle(chk, rs) ==
    IF rs = <<>> THEN chk ELSE Settle(SettleOne(chk, Head(rs).Slug), Tail(rs))

\* ar[r.Slug] = r.ID for every r of rlr.Realms, in order
RECURSIVE AllRealmsOf(_, _)
AllRealmsOf(a, rs) ==
    IF rs = <<>> THEN a ELSE AllRealmsOf(Put(a, Head(rs).Slug, Head(rs).ID), Tail(rs))

\* the completeness check
Incomplete(chk) == Cardinality(DOMAIN chk) > 0

Workers == 1..threads

NewWorker == [pc |-> "new", c |-> 0, resp |-> <<>>, realms |-> <<>>]

NewGroup == [started |-> 0, running |-> 0, err |-> NoErr]

\* a goroutine of the group returns err: Done, and the first error is kept
GroupReturn(g, err) ==
    [g EXCEPT !.running = @ - 1,
              !.err = IF @ = NoErr THEN err ELSE @]

-----------------------------------------------------------------------------
(* Requests to the transport *)

\* unit u calls h.Get(region, endpoint)
Issue(u, endpoint) ==
    /\ requests' = requests \cup {endpoint}
    /\ nreq' = nreq + 1
    /\ inflight' = inflight \cup {u}

\* h.Get returns to unit u
Answer(u) ==
    /\ inflight' = inflight \ {u}
    /\ UNCHANGED <<requests, nreq, rev>>

-----------------------------------------------------------------------------
(* GetRealmList up to the two decoded indexes.  These lines are the same   *)
(* in the three revisions.                                                 *)

\* h.Get(region, "data/wow/realm/index?...")
GetRealmIndex ==
    /\ pc = "start"
    /\ ~panicked
    /\ Issue(0, Endpoint("realm/index", 0, ""))
    /\ pc' = "realmIndex"
    /\ UNCHANGED <<libVars, lazyVars, h, region, rlr, crr, crCh, crc, ar, crRealm, crcCheck, lock, eg, wk, ret, lk>>

\* the realm index request returns an error, or a body that does not decode:
\* return nil, err
RealmIndexFail ==
    /\ pc = "realmIndex"
    /\ ~panicked
    /\ h.realmIndex.st # "ok"
    /\ Answer(0)
    /\ ret' = Return(NilRealms,
                     Err(IF h.realmIndex.st = "err" THEN "transport" ELSE "decode", 0))
    /\ pc' = "done"
    /\ UNCHANGED <<libVars, lazyVars, h, region, rlr, crr, crCh, crc, ar, crRealm, crcCheck, lock, eg, wk, lk>>

\* the realm index is decoded into rlr
RealmIndexOk ==
    /\ pc = "realmIndex"
    /\ ~panicked
    /\ h.realmIndex.st = "ok"
    /\ Answer(0)
    /\ rlr' = h.realmIndex.body
    /\ pc' = "getConnIndex"
    /\ UNCHANGED <<libVars, lazyVars, h, region, crr, crCh, crc, ar, crRealm, crcCheck, lock, eg, wk, ret, lk>>

\* h.Get(region, "data/wow/connected-realm/index?...")
GetConnIndex ==
    /\ pc = "getConnIndex"
    /\ ~panicked
    /\ Issue(0, Endpoint("connected-realm/index", 0, ""))
    /\ pc' = "connIndex"
    /\ UNCHANGED <<libVars, lazyVars, h, region, rlr, crr, crCh, crc, ar, crRealm, crcCheck, lock, eg, wk, ret, lk>>

ConnIndexFail ==
    /\ pc = "connIndex"
    /\ ~panicked
    /\ h.connIndex.st # "ok"
    /\ Answer(0)
    /\ ret' = Return(NilRealms,
                     Err(IF h.connIndex.st = "err" THEN "transport" ELSE "decode", 0))
    /\ pc' = "done"
    /\ UNCHANGED <<libVars, lazyVars, h, region, rlr, crr, crCh, crc, ar, crRealm, crcCheck, lock, eg, wk, lk>>

ConnIndexOk ==
    /\ pc = "connIndex"
    /\ ~panicked
    /\ h.connIndex.st = "ok"
    /\ Answer(0)
    /\ crr' = h.connIndex.body
    /\ pc' = "parse"
    /\ UNCHANGED <<libVars, lazyVars, h, region, rlr, crCh, crc, ar, crRealm, crcCheck, lock, eg, wk, ret, lk>>

-----------------------------------------------------------------------------
(* The eager GetRealmList from the parse loop on *)

\* the parse loop meets digits Atoi rejects: return nil, err
ParseFail ==
    /\ pc = "parse"
    /\ FirstAtoiError(crr) # 0
    /\ ret' = Return(NilRealms, Atoi(crr[FirstAtoiError(crr)]).err)
    /\ pc' = "done"
    /\ UNCHANGED <<libVars, lazyVars, h, region, rlr, crr, crCh, crc, ar, crRealm, crcCheck, lock, eg, wk,
                   requests, nreq, inflight, lk>>

\* the parse loop sends every id that parses to crCh, and crCh is closed
Parse ==
    /\ pc = "parse"
    /\ FirstAtoiError(crr) = 0
    /\ crCh' = ParsedIDs(crr)
    /\ pc' = "spawn"
    /\ UNCHANGED <<libVars, lazyVars, h, region, rlr, crr, crc, ar, crRealm, crcCheck, lock, eg, wk, ret,
                   requests, nreq, inflight, lk>>

\* eg.Go(worker), `threads` times
Go ==
    /\ pc = "spawn"
    /\ eg.started < threads
    /\ eg' = [eg EXCEPT !.started = @ + 1, !.running = @ + 1]
    /\ pc' = IF eg.started + 1 = threads THEN "wait" ELSE "spawn"
    /\ UNCHANGED <<libVars, lazyVars, h, region, rlr, crr, crCh, crc, ar, crRealm, crcCheck, lock, wk, ret,
                   requests, nreq, inflight, lk>>

\* Goroutines run the same closure and carry no identity: goroutine w is the
\* w-th to run its first statement.
Runnable(w) ==
    /\ wk[w].pc = "new"
    /\ w <= eg.started
    /\ \A v \in Workers : v < w => wk[v].pc # "new"

\* `for crID := range crCh` on the closed, drained channel: the worker returns nil
RecvClosed(w) ==
    /\ Runnable(w)
    /\ crCh = <<>>
    /\ wk' = [wk EXCEPT ![w].pc = "done"]
    /\ eg' = GroupReturn(eg, NoErr)
    /\ UNCHANGED <<libVars, lazyVars, h, region, pc, rlr, crr, crCh, crc, ar, crRealm, crcCheck, lock, ret,
                   requests, nreq, inflight, lk>>

\* a scrapeConnRealm that takes the lock before its request
Recv_Locked(w) ==
    /\ Runnable(w)
    /\ crCh # <<>>
    /\ CanLock(lock)
    /\ lock' = [lock EXCEPT !.writer = w]
    /\ crCh' = Tail(crCh)
    /\ wk' = [wk EXCEPT ![w].pc = "fetch", ![w].c = Head(crCh)]
    /\ Issue(w, Endpoint("connected-realm", Head(crCh), ""))
    /\ UNCHANGED <<libVars, lazyVars, h, region, pc, rlr, crr, crc, ar, crRealm, crcCheck, eg, ret, lk>>

\* the worker receives crID and scrapeConnRealm requests that cluster
Recv(w) ==
    /\ Runnable(w)
    /\ crCh # <<>>
    /\ crCh' = Tail(crCh)
    /\ wk' = [wk EXCEPT ![w].pc = "fetch", ![w].c = Head(crCh)]
    /\ Issue(w, Endpoint("connected-realm", Head(crCh), ""))
    /\ UNCHANGED <<libVars, lazyVars, h, region, pc, rlr, crr, crc, ar, crRealm, crcCheck, lock, eg, ret, lk>>

\* scrapeConnRealm's request fails or does not decode: the worker returns the error
FetchFail(w) ==
    /\ wk[w].pc = "fetch"
    /\ ConnRealmResp(h, wk[w].c).st # "ok"
    /\ Answer(w)
    /\ wk' = [wk EXCEPT ![w].pc = "done"]
    /\ eg' = GroupReturn(eg, Err(IF ConnRealmResp(h, wk[w].c).st = "err"
                                 THEN "transport" ELSE "decode", wk[w].c))
    /\ UNCHANGED <<libVars, lazyVars, h, region, pc, rlr, crr, crCh, crc, ar, crRealm, crcCheck, lock, ret, lk>>

\* scrapeConnRealm's response is decoded
FetchOk(w) ==
    /\ wk[w].pc = "fetch"
    /\ ConnRealmResp(h, wk[w].c).st = "ok"
    /\ Answer(w)
    /\ wk' = [wk EXCEPT ![w].pc = "lock1", ![w].resp = ConnRealmResp(h, wk[w].c).body]
    /\ UNCHANGED <<libVars, lazyVars, h, region, pc, rlr, crr, crCh, crc, ar, crRealm, crcCheck, lock, eg, ret, lk>>

\* scrapeConnRealm: r.lock.Lock()
ScrapeLock(w) ==
    /\ wk[w].pc = "lock1"
    /\ CanLock(lock)
    /\ lock' = [lock EXCEPT !.writer = w]
    /\ wk' = [wk EXCEPT ![w].pc = "scrape"]
    /\ UNCHANGED <<libVars, lazyVars, h, region, pc, rlr, crr, crCh, crc, ar, crRealm, crcCheck, eg, ret,
                   requests, nreq, inflight, lk>>

\* a scrapeConnRealm that returns the error of a blank entry with the lock held
ScrapeBlank_Held(w) ==
    /\ wk[w].pc = "scrape"
    /\ lock.writer = w
    /\ FirstBlank(wk[w].resp) # 0
    /\ crc' = ScrapeAppend(crc, wk[w].c, wk[w].resp, FirstBlank(wk[w].resp) - 1)
    /\ wk' = [wk EXCEPT ![w].pc = "done"]
    /\ eg' = GroupReturn(eg, Err("blank realm response", wk[w].c))
    /\ UNCHANGED <<libVars, lazyVars, h, region, pc, rlr, crr, crCh, ar, crRealm, crcCheck, lock, ret,
                   requests, nreq, inflight, lk>>

\* scrapeConnRealm's loop meets a blank entry: the entries before it are in
\* c already, the lock is released and the worker returns the error
ScrapeBlank(w) ==
    /\ wk[w].pc = "scrape"
    /\ lock.writer = w
    /\ FirstBlank(wk[w].resp) # 0
    /\ crc' = ScrapeAppend(crc, wk[w].c, wk[w].resp, FirstBlank(wk[w].resp) - 1)
    /\ lock' = [lock EXCEPT !.writer = 0]
    /\ wk' = [wk EXCEPT ![w].pc = "done"]
    /\ eg' = GroupReturn(eg, Err("blank realm response", wk[w].c))
    /\ UNCHANGED <<libVars, lazyVars, h, region, pc, rlr, crr, crCh, ar, crRealm, crcCheck, ret,
                   requests, nreq, inflight, lk>>

\* scrapeConnRealm's loop appends every slug to c[connRealmId], releases the
\* lock and returns the slugs
Scrape(w) ==
    /\ wk[w].pc = "scrape"
    /\ lock.writer = w
    /\ FirstBlank(wk[w].resp) = 0
    /\ crc' = ScrapeAppend(crc, wk[w].c, wk[w].resp, Len(wk[w].resp))
    /\ lock' = [lock EXCEPT !.writer = 0]
    /\ wk' = [wk EXCEPT ![w].pc = "lock2", ![w].realms = SlugsOf(wk[w].resp)]
    /\ UNCHANGED <<libVars, lazyVars, h, region, pc, rlr, crr, crCh, ar, crRealm, crcCheck, eg, ret,
                   requests, nreq, inflight, lk>>

\* the worker: rs.lock.Lock()
MergeLock(w) ==
    /\ wk[w].pc = "lock2"
    /\ CanLock(lock)
    /\ lock' = [lock EXCEPT !.writer = w]
    /\ wk' = [wk EXCEPT ![w].pc = "merge"]
    /\ UNCHANGED <<libVars, lazyVars, h, region, pc, rlr, crr, crCh, crc, ar, crRealm, crcCheck, eg, ret,
                   requests, nreq, inflight, lk>>

\* the worker counts its slugs in crcCheck, writes them to crRealm, releases
\* the lock and returns nil: the return statement stands inside the range
\* loop, so the worker takes no second cluster
Merge(w) ==
    /\ wk[w].pc = "merge"
    /\ lock.writer = w
    /\ crcCheck' = MergeCheck(crcCheck, wk[w].realms)
    /\ crRealm' = MergeCrRealm(crRealm, wk[w].realms, wk[w].c)
    /\ lock' = [lock EXCEPT !.writer = 0]
    /\ wk' = [wk EXCEPT ![w].pc = "done"]
    /\ eg' = GroupReturn(eg, NoErr)
    /\ UNCHANGED <<libVars, lazyVars, h, region, pc, rlr, crr, crCh, crc, ar, ret, requests, nreq, inflight, lk>>

\* eg.Wait() returns an error: return nil, err
WaitFail ==
    /\ pc = "wait"
    /\ eg.running = 0
    /\ eg.err # NoErr
    /\ ret' = Return(NilRealms, eg.err)
    /\ pc' = "done"
    /\ UNCHANGED <<libVars, lazyVars, h, region, rlr, crr, crCh, crc, ar, crRealm, crcCheck, lock, eg, wk,
                   requests, nreq, inflight, lk>>

\* an eg.Wait() that returns while goroutines of the group are running
Wait_Early ==
    /\ pc = "wait"
    /\ eg.err = NoErr
    /\ pc' = "check"
    /\ UNCHANGED <<libVars, lazyVars, h, region, rlr, crr, crCh, crc, ar, crRealm, crcCheck, lock, eg, wk, ret,
                   requests, nreq, inflight, lk>>

\* eg.Wait() returns nil
Wait ==
    /\ pc = "wait"
    /\ eg.running = 0
    /\ eg.err = NoErr
    /\ pc' = "check"
    /\ UNCHANGED <<libVars, lazyVars, h, region, rlr, crr, crCh, crc, ar, crRealm, crcCheck, lock, eg, wk, ret,
                   requests, nreq, inflight, lk>>

\* the cross-check leaves an entry in crcCheck: return nil, "realms not
\* completely scraped"
CheckFail ==
    /\ pc = "check"
    /\ ar' = AllRealmsOf(ar, rlr)
    /\ crcCheck' = Settle(crcCheck, rlr)
    /\ Incomplete(crcCheck')
    /\ ret' = Return(NilRealms, Err("realms not completely scraped", 0))
    /\ pc' = "done"
    /\ UNCHANGED <<libVars, lazyVars, h, region, rlr, crr, crCh, crc, crRealm, lock, eg, wk,
                   requests, nreq, inflight, lk>>

\* the cross-check empties crcCheck: return the Realms
CheckOk ==
    /\ pc = "check"
    /\ ar' = AllRealmsOf(ar, rlr)
    /\ crcCheck' = Settle(crcCheck, rlr)
    /\ ~Incomplete(crcCheck')
    /\ ret' = Return(EagerRealms(region, crc, ar', crRealm), NoErr)
    /\ pc' = "done"
    /\ UNCHANGED <<libVars, lazyVars, h, region, rlr, crr, crCh, crc, crRealm, lock, eg, wk,
                   requests, nreq, inflight, lk>>

\* Realms.ConnectedRealmID on the directory GetRealmList returned
LookupEager(realmSlug) ==
    /\ pc = "done"
    /\ ~ret.r.nil
    /\ lk' = [called |-> TRUE, slug |-> realmSlug,
              id |-> RealmsConnectedRealmID(ret.r, realmSlug).id,
              err |-> RealmsConnectedRealmID(ret.r, realmSlug).err]
    /\ UNCHANGED <<libVars, lazyVars, h, region, pc, rlr, crr, crCh, crc, ar, crRealm, crcCheck, lock, eg, wk,
                   ret, requests, nreq, inflight>>

-----------------------------------------------------------------------------
(* The inputs of a build: the region and the responses of the transport    *)

Transport(realmIndex, connIndex, connRealm, realm) ==
    [realmIndex |-> realmIndex, connIndex |-> connIndex, connRealm |-> connRealm,
     realm |-> realm, search |-> EmptyMap]

Input(reg, tr) == [region |-> reg, h |-> tr]

\* sequences over S of length at most n
SeqsUpTo(S, n) == UNION {[1..k -> S] : k \in 0..n}

\* The realms of the test fixture (TestGetRealmList)
R1 == Realm(1, "realm1-main")
R2 == Realm(2, "realm2")
R3 == Realm(3, "realm3-main")
R4 == Realm(4, "realm4")
R5 == Realm(5, "realm5")
\* a realm that no realm index lists
R9 == Realm(9, "realm9")

FixtureIndex == <<R1, R2, R3, R4, R5>>

\* The fixture, and the fixture with one or two of its responses changed:
\* a reference that does not match, digits out of range, a cluster that is
\* referenced twice or not at all; an expansion without realm5, with a blank
\* id or slug, failing or not decoding; realm5 listed by the other cluster.
FixtureRefs ==
    { <<ClusterHref(1), ClusterHref(3)>>,
      <<ClusterHref(1), Href(FALSE, "int", 2, TRUE), ClusterHref(3)>>,
      <<ClusterHref(1), Href(TRUE, "int", 3, FALSE)>>,
      <<ClusterHref(1), Href(TRUE, "none", 0, TRUE), ClusterHref(3)>>,
      <<ClusterHref(1), Href(TRUE, "huge", 0, TRUE)>>,
      <<ClusterHref(1), ClusterHref(3), ClusterHref(1)>> }

FixtureCluster1 ==
    { Resp("ok", <<R1, R2, R5>>), Resp("ok", <<R1, R2>>),
      Resp("ok", <<R1, Realm(0, "realm2"), R5>>), Resp("ok", <<R1, Realm(2, ""), R5>>),
      Resp("err", <<>>), Resp("badjson", <<>>) }

FixtureCluster3 ==
    { Resp("ok", <<R3, R4>>), Resp("ok", <<R3, R4, R5>>), Resp("ok", <<R3>>),
      Resp("err", <<>>) }

FixtureInputs ==
    { Input(us, Transport(Resp("ok", FixtureIndex), Resp("ok", refs),
                          (1 :> c1) @@ (3 :> c3), EmptyMap)) :
        refs \in FixtureRefs, c1 \in FixtureCluster1, c3 \in FixtureCluster3 }

\* an index request that fails or does not decode
IndexFailInputs ==
    { Input(us, Transport(Resp(s1, IF s1 = "ok" THEN FixtureIndex ELSE <<>>),
                          Resp(s2, <<>>), EmptyMap, EmptyMap)) :
        s1 \in {"ok", "err", "badjson"}, s2 \in {"err", "badjson"} }

\* the fixture called with other region strings
RegionInputs ==
    { Input(reg, Transport(Resp("ok", FixtureIndex),
                           Resp("ok", <<ClusterHref(1), ClusterHref(3)>>),
                           (1 :> Resp("ok", <<R1, R2, R5>>)) @@ (3 :> Resp("ok", <<R3, R4>>)),
                           EmptyMap)) :
        reg \in {<<"e", "u">>, <<"x", "x">>, <<"u", "s", "e">>, <<>>} }

\* the longest expansion of the small inputs
MaxListed == 2

\* Small inputs: a realm index of up to two realms, one or two clusters, and
\* every expansion of up to MaxListed entries drawn from the two realms and a
\* realm the index does not list.
SmallIndexes == {<<>>, <<R1>>, <<R1, R2>>}

SmallInputs ==
    { Input(us, Transport(Resp("ok", idx), Resp("ok", <<ClusterHref(1)>>),
                          (1 :> Resp("ok", e1)), EmptyMap)) :
        idx \in SmallIndexes, e1 \in SeqsUpTo({R1, R2, R9}, MaxListed) }
    \cup
    { Input(us, Transport(Resp("ok", idx), Resp("ok", <<ClusterHref(1), ClusterHref(3)>>),
                          (1 :> Resp("ok", e1)) @@ (3 :> Resp("ok", e3)), EmptyMap)) :
        idx \in SmallIndexes, e1 \in SeqsUpTo({R1, R2, R9}, MaxListed),
        e3 \in SeqsUpTo({R1, R2, R9}, MaxListed) }

\* Wide inputs: k clusters of one realm each, k up to MaxClusters
WideRealm(i) == Realm(i, "realm" \o ToString(i))

WideInputs ==
    { Input(us, Transport(Resp("ok", [i \in 1..k |-> WideRealm(i)]),
                          Resp("ok", [i \in 1..k |-> ClusterHref(i)]),
                          [i \in 1..k |-> Resp("ok", <<WideRealm(i)>>)], EmptyMap)) :
        k \in 0..MaxClusters }

EagerInputs == FixtureInputs \cup IndexFailInputs \cup RegionInputs \cup SmallInputs
               \cup WideInputs

\* the slugs ConnectedRealmID is asked for
LookupSlugs == Range(SlugsOf(h.realmIndex.body)) \cup {"realm9", "unknown"}

InitEager ==
    /\ \E in \in EagerInputs : h = in.h /\ region = in.region
    /\ pc = "start"
    /\ rlr = <<>>
    /\ crr = <<>>
    /\ crCh = <<>>
    /\ crc = EmptyMap
    /\ ar = EmptyMap
    /\ crRealm = EmptyMap
    /\ crcCheck = EmptyMap
    /\ lock = NewRWMutex
    /\ eg = NewGroup
    /\ wk = [w \in Workers |-> NewWorker]
    /\ ret = NotReturned
    /\ requests = {}
    /\ nreq = 0
    /\ inflight = {}
    /\ lk = NoLookup
    /\ crLookup = {}
    /\ m = EmptyMap
    /\ ch = <<>>
    /\ slug = ""
    /\ cl = <<>>
    /\ panicked = FALSE
    /\ valid = NotCalled
    /\ rev = "eager"
    /\ LibIdle

NextEager ==
    \/ GetRealmIndex \/ RealmIndexFail \/ RealmIndexOk
    \/ GetConnIndex \/ ConnIndexFail \/ ConnIndexOk
    \/ ParseFail \/ Parse \/ Go
    \/ \E w \in Workers :
        \/ RecvClosed(w) \/ Recv(w) \/ FetchFail(w) \/ FetchOk(w)
        \/ ScrapeLock(w) \/ ScrapeBlank(w) \/ Scrape(w)
        \/ MergeLock(w) \/ Merge(w)
    \/ WaitFail \/ Wait \/ CheckFail \/ CheckOk
    \/ \E s \in LookupSlugs : LookupEager(s)

SpecEager == InitEager /\ [][NextEager]_vars

-----------------------------------------------------------------------------
(* What the remote service holds, for the statements about a build *)

\* the realm index as the service gives it
IndexRealms == IF h.realmIndex.st = "ok" THEN h.realmIndex.body ELSE <<>>

IndexSlugs == Range(SlugsOf(IndexRealms))

\* the cluster ids the connected-realm index references, in index order
ReferencedIDs == IF h.connIndex.st = "ok" THEN ParsedIDs(h.connIndex.body) ELSE <<>>

\* the realm index lists no slug twice
IndexSlugsUnique ==
    \A i, j \in DOMAIN IndexRealms : IndexRealms[i].Slug = IndexRealms[j].Slug => i = j

\* GetRealmList returned a directory and no error
Built == ret.returned /\ ret.err = NoErr /\ ~ret.r.nil

\* the workers of the eager build have all returned nil
WorkersFinished == eg.started = threads /\ eg.running = 0 /\ eg.err = NoErr

\* how often the membership results the workers gathered list slug s
RECURSIVE SumOver(_, _)
SumOver(f, S) ==
    IF S = {} THEN 0
    ELSE LET x == CHOOSE y \in S : TRUE IN f[x] + SumOver(f, S \ {x})

Gathered(s) == SumOver([w \in Workers |-> Count(wk[w].realms, s)], Workers)

GatheredSlugs == UNION {Range(wk[w].realms) : w \in Workers}

-----------------------------------------------------------------------------
(* C1: Completeness.  Whenever the eager GetRealmList returns a directory  *)
(* without error, every slug of the realm index is a valid realm of        *)
(* AllRealms and ConnectedRealmID returns a cluster id for it without      *)
(* error; and a lookup made on that directory for a slug of the index      *)
(* returned no error.                                                      *)
C1_Completeness ==
    Built =>
        /\ \A s \in IndexSlugs :
              /\ IsValidRealm(ret.r.AllRealms, s)
              /\ RealmsConnectedRealmID(ret.r, s).err = NoErr
              /\ RealmsConnectedRealmID(ret.r, s).id # -1
        /\ (lk.called /\ lk.slug \in IndexSlugs) => lk.err = NoErr

\* a directory of several realms was returned and a realm of the index looked up
C1_Witness ==
    /\ Built
    /\ Cardinality(IndexSlugs) >= 2
    /\ lk.called /\ lk.slug \in IndexSlugs /\ lk.err = NoErr /\ lk.id \in Range(ReferencedIDs)

-----------------------------------------------------------------------------
(* The remote data of a consistent snapshot *)

\* every request of an eager build of this remote data succeeds and decodes
EagerTransportOk ==
    /\ h.realmIndex.st = "ok"
    /\ h.connIndex.st = "ok"
    /\ \A id \in Range(ReferencedIDs) : ConnRealmResp(h, id).st = "ok"

\* the expansion of cluster id, as the service gives it
Expansion(id) == ConnRealmResp(h, id).body

\* how often the expansions of the referenced clusters list slug s
Listed(s) ==
    SumOver([i \in DOMAIN ReferencedIDs |-> Count(SlugsOf(Expansion(ReferencedIDs[i])), s)],
            DOMAIN ReferencedIDs)

ListedSlugs == UNION {Range(SlugsOf(Expansion(id))) : id \in Range(ReferencedIDs)}

\* The index references every cluster once, with digits that parse; no
\* expansion has a blank entry; the expansions list each slug of the realm
\* index exactly once, and no other slug.
ExactlyOnce ==
    /\ IndexSlugsUnique
    /\ FirstAtoiError(h.connIndex.body) = 0
    /\ \A i, j \in DOMAIN ReferencedIDs : ReferencedIDs[i] = ReferencedIDs[j] => i = j
    /\ \A id \in Range(ReferencedIDs) : FirstBlank(Expansion(id)) = 0
    /\ \A s \in IndexSlugs : Listed(s) = 1
    /\ ListedSlugs \subseteq IndexSlugs

\* the id of the cluster whose expansion lists s
ClusterOf(s) ==
    CHOOSE id \in Range(ReferencedIDs) : s \in Range(SlugsOf(Expansion(id)))

\* the realm id the index gives slug s
RealmIDOf(s) == (CHOOSE r \in Range(IndexRealms) : r.Slug = s).ID

(* C2: Eager build result.  Whenever every transport call succeeds and the *)
(* expansions of the referenced clusters list each slug of the realm index *)
(* exactly once and no other slug, GetRealmList returns no error and a     *)
(* directory whose crRealm maps each slug to the cluster that lists it,    *)
(* whose AllRealms maps each slug to its realm id and whose                *)
(* ConnectedRealms maps each cluster id to its member slugs in response    *)
(* order, for any number of realms and clusters.                           *)
C2_EagerResult ==
    (pc = "done" /\ EagerTransportOk /\ ExactlyOnce) =>
        /\ Built
        /\ ret.r.Region = region
        /\ ret.r.crRealm = [s \in IndexSlugs |-> ClusterOf(s)]
        /\ ret.r.AllRealms = [s \in IndexSlugs |-> RealmIDOf(s)]
        /\ \A id \in Range(ReferencedIDs) :
              Lookup(ret.r.ConnectedRealms, id, <<>>) = SlugsOf(Expansion(id))
        /\ DOMAIN ret.r.ConnectedRealms \subseteq Range(ReferencedIDs)

-----------------------------------------------------------------------------
(* IsValidRegion applied to bounded strings *)

\* the strings IsValidRegion is applied to
RegionChars == {"u", "s", "e", "x"}

Regions == SeqsUpTo(RegionChars, MaxRegionLen)

InitRegion ==
    /\ region \in Regions
    /\ valid = NotCalled
    /\ rev = "region"
    /\ LibIdle
    /\ h = Transport(Resp("err", <<>>), Resp("err", <<>>), EmptyMap, EmptyMap)
    /\ pc = "start"
    /\ rlr = <<>>
    /\ crr = <<>>
    /\ crCh = <<>>
    /\ crc = EmptyMap
    /\ ar = EmptyMap
    /\ crRealm = EmptyMap
    /\ crcCheck = EmptyMap
    /\ lock = NilRWMutex
    /\ eg = NewGroup
    /\ wk = <<>>
    /\ ret = NotReturned
    /\ requests = {}
    /\ nreq = 0
    /\ inflight = {}
    /\ lk = NoLookup
    /\ crLookup = {}
    /\ m = EmptyMap
    /\ ch = <<>>
    /\ slug = ""
    /\ cl = <<>>
    /\ panicked = FALSE

\* a call of IsValidRegion(region)
CallIsValidRegion ==
    /\ ~valid.called
    /\ valid' = [called |-> TRUE, result |-> IsValidRegion(region)]
    /\ UNCHANGED <<libVars, h, region, pc, rlr, crr, crCh, crc, ar, crRealm, crcCheck, lock,
                   eg, wk, ret, requests, nreq, inflight, lk, crLookup, m, ch, slug, cl,
                   panicked, rev>>

NextRegion == CallIsValidRegion

SpecRegion == InitRegion /\ [][NextRegion]_vars

(* C9: IsValidRegion returns true for exactly the strings "us" and "eu"    *)
(* and false for every other string.                                       *)
C9_ExactlyUsEu == valid.called => (valid.result <=> region \in RegionCodes)

-----------------------------------------------------------------------------
(* The lazy revision (src/unnamed/part_000)                                *)
(*                                                                         *)
(* GetRealmList builds its scanner as &realmScanner{} and the package's    *)
(* scanner r is a nil pointer: in every scanner of this revision the lock  *)
(* is nil, so connRealmID panics at r.lock.RLock() whenever the region     *)
(* passes IsValidRegion.  The statements of connRealmID after RLock are    *)
(* never reached and have no action here.  The channel ch is never closed: *)
(* the range loop over it blocks once it is drained, so eg.Wait() and the  *)
(* return of the Realms are not reached either.                            *)

\* the response of the per-realm endpoint; an unknown realm is a 404
RealmResp(tr, name) == Lookup(tr.realm, name, Resp("err", Href(FALSE, "none", 0, FALSE)))

\* the lazy revision's Realms
LazyRealms(reg, c, a) ==
    [nil |-> FALSE, Region |-> reg, ConnectedRealms |-> c, AllRealms |-> a]

\* the parse loop of the lazy GetRealmList: crLookup[id] = struct{}{}
LazyParseFail ==
    /\ pc = "parse"
    /\ ~panicked
    /\ FirstAtoiError(crr) # 0
    /\ ret' = Return(NilRealms, Atoi(crr[FirstAtoiError(crr)]).err)
    /\ pc' = "done"
    /\ UNCHANGED <<libVars, eagerVars, h, region, rlr, crr, ar, lock, eg, wk, requests, nreq,
                   inflight, crLookup, m, ch, slug, cl, panicked, valid, rev>>

LazyParse ==
    /\ pc = "parse"
    /\ ~panicked
    /\ FirstAtoiError(crr) = 0
    /\ crLookup' = Range(ParsedIDs(crr))
    /\ pc' = "fill"
    /\ UNCHANGED <<libVars, eagerVars, h, region, rlr, crr, ar, lock, eg, wk, ret, requests, nreq,
                   inflight, m, ch, slug, cl, panicked, valid, rev>>

\* m[r.Slug] = r.ID for every realm of rs whose id is in lookup, in order
RECURSIVE Roots(_, _, _)
Roots(c, rs, lookup) ==
    IF rs = <<>> THEN c
    ELSE Roots(IF Head(rs).ID \in lookup THEN Put(c, Head(rs).Slug, Head(rs).ID) ELSE c,
               Tail(rs), lookup)

\* the slugs of the realms of rs whose id is not in lookup, in order
RECURSIVE NonRoots(_, _)
NonRoots(rs, lookup) ==
    IF rs = <<>> THEN <<>>
    ELSE IF Head(rs).ID \in lookup THEN NonRoots(Tail(rs), lookup)
         ELSE <<Head(rs).Slug>> \o NonRoots(Tail(rs), lookup)

\* the loop over rlr.Realms: ar and the roots of m are written, the other
\* slugs are queued on ch (whose buffer holds them all)
Fill ==
    /\ pc = "fill"
    /\ ~panicked
    /\ ar' = AllRealmsOf(ar, rlr)
    /\ m' = Roots(m, rlr, crLookup)
    /\ ch' = NonRoots(rlr, crLookup)
    /\ pc' = "range"
    /\ UNCHANGED <<libVars, eagerVars, h, region, rlr, crr, lock, eg, wk, ret, requests, nreq,
                   inflight, crLookup, slug, cl, panicked, valid, rev>>

NewUnit == [pc |-> "new", slug |-> "", err |-> NoErr]

\* `for slug := range ch` receives a slug and eg.Go starts a goroutine
RangeRecv ==
    /\ pc = "range"
    /\ ~panicked
    /\ ch # <<>>
    /\ slug' = Head(ch)
    /\ ch' = Tail(ch)
    /\ eg' = [eg EXCEPT !.started = @ + 1, !.running = @ + 1]
    /\ wk' = Append(wk, NewUnit)
    /\ UNCHANGED <<libVars, eagerVars, h, region, pc, rlr, crr, ar, lock, ret, requests, nreq,
                   inflight, crLookup, m, cl, panicked, valid, rev>>

\* the range loop finds ch drained; ch is not closed, so the receive blocks
\* and GetRealmList goes no further
RangeBlock ==
    /\ pc = "range"
    /\ ~panicked
    /\ ch = <<>>
    /\ pc' = "blocked"
    /\ UNCHANGED <<libVars, eagerVars, h, region, rlr, crr, ar, lock, eg, wk, ret, requests, nreq,
                   inflight, crLookup, m, ch, slug, cl, panicked, valid, rev>>

\* A goroutine of the group runs rs.connRealmID(h, slug, region, m), reading
\* the loop variable slug as it now is; the region is rejected and the
\* goroutine returns the error.
UnitInvalidRegion(u) ==
    /\ u \in DOMAIN wk
    /\ wk[u].pc = "new"
    /\ ~panicked
    /\ ~IsValidRegion(region)
    /\ wk' = [wk EXCEPT ![u] = [pc |-> "done", slug |-> slug, err |-> Err("invalid region", 0)]]
    /\ eg' = GroupReturn(eg, Err("invalid region", 0))
    /\ UNCHANGED <<libVars, eagerVars, h, region, pc, rlr, crr, ar, lock, ret, requests, nreq,
                   inflight, crLookup, m, ch, slug, cl, panicked, valid, rev>>

\* the region is accepted and r.lock.RLock() dereferences the nil lock: the
\* goroutine panics, and with it the process
UnitRLockNil(u) ==
    /\ u \in DOMAIN wk
    /\ wk[u].pc = "new"
    /\ ~panicked
    /\ IsValidRegion(region)
    /\ lock.ptr = "nil"
    /\ wk' = [wk EXCEPT ![u] = [pc |-> "panic", slug |-> slug, err |-> NoErr]]
    /\ panicked' = TRUE
    /\ UNCHANGED <<libVars, eagerVars, h, region, pc, rlr, crr, ar, lock, eg, ret, requests, nreq,
                   inflight, crLookup, m, ch, slug, cl, valid, rev>>

\* the most calls of ConnectedRealmID by callers of the package
MaxCalls == 2

Call(name, reg, st, id, err) ==
    [realmSlug |-> name, region |-> reg, st |-> st, id |-> id, err |-> err]

\* ConnectedRealmCollection.ConnectedRealmID(h, realmSlug, region) on a
\* collection of the caller's: r.connRealmID rejects the region
CallInvalidRegion(name, reg) ==
    /\ Len(cl) < MaxCalls
    /\ ~panicked
    /\ ~IsValidRegion(reg)
    /\ cl' = Append(cl, Call(name, reg, "returned", -1, Err("invalid region", 0)))
    /\ UNCHANGED <<libVars, eagerVars, h, region, pc, rlr, crr, ar, lock, eg, wk, ret, requests,
                   nreq, inflight, crLookup, m, ch, slug, panicked, valid, rev>>

\* the region is accepted and r.lock dereferences the nil scanner r: panic
CallNilScanner(name, reg) ==
    /\ Len(cl) < MaxCalls
    /\ ~panicked
    /\ IsValidRegion(reg)
    /\ cl' = Append(cl, Call(name, reg, "panic", 0, NoErr))
    /\ panicked' = TRUE
    /\ UNCHANGED <<libVars, eagerVars, h, region, pc, rlr, crr, ar, lock, eg, wk, ret, requests,
                   nreq, inflight, crLookup, m, ch, slug, valid, rev>>

\* the region strings the lazy build and the callers are given
LazyRegions == {us, eu, <<"x", "x">>, <<"u", "s", "e">>, <<>>}

\* the per-realm responses of the fixture (part_002), and the fixture with a
\* failing realm, two failing realms, or a reference that does not match
LazyRealmResps ==
    { ("realm2" :> Resp("ok", ClusterHref(1))) @@ ("realm4" :> Resp("ok", ClusterHref(3)))
        @@ ("realm5" :> Resp("ok", ClusterHref(1))),
      ("realm2" :> Resp("err", ClusterHref(1))) @@ ("realm4" :> Resp("ok", ClusterHref(3)))
        @@ ("realm5" :> Resp("ok", ClusterHref(1))),
      ("realm2" :> Resp("err", ClusterHref(1))) @@ ("realm4" :> Resp("err", ClusterHref(3)))
        @@ ("realm5" :> Resp("ok", ClusterHref(1))),
      ("realm2" :> Resp("ok", ClusterHref(1))) @@ ("realm4" :> Resp("ok", ClusterHref(3)))
        @@ ("realm5" :> Resp("ok", Href(FALSE, "int", 1, TRUE))) }

LazyIndexes == {FixtureIndex, <<R1, R2>>, <<R1, R3>>, <<>>}

LazyRefs ==
    { <<ClusterHref(1), ClusterHref(3)>>,
      <<ClusterHref(1), Href(FALSE, "int", 2, TRUE), ClusterHref(3)>>,
      <<ClusterHref(1), Href(TRUE, "huge", 0, TRUE)>> }

LazyInputs ==
    { Input(reg, Transport(Resp("ok", idx), Resp("ok", refs), EmptyMap, rr)) :
        reg \in LazyRegions, idx \in LazyIndexes, refs \in LazyRefs, rr \in LazyRealmResps }
    \cup IndexFailInputs

\* the arguments of the callers
CallSlugs == {"realm2", "Realm2"}

CallRegions == {us, <<"x", "x">>, <<"u", "s", "e">>}

InitLazy ==
    /\ \E in \in LazyInputs : h = in.h /\ region = in.region
    /\ pc = "start"
    /\ rlr = <<>>
    /\ crr = <<>>
    /\ crCh = <<>>
    /\ crc = EmptyMap
    /\ ar = EmptyMap
    /\ crRealm = EmptyMap
    /\ crcCheck = EmptyMap
    /\ lock = NilRWMutex
    /\ eg = NewGroup
    /\ wk = <<>>
    /\ ret = NotReturned
    /\ requests = {}
    /\ nreq = 0
    /\ inflight = {}
    /\ lk = NoLookup
    /\ crLookup = {}
    /\ m = EmptyMap
    /\ ch = <<>>
    /\ slug = ""
    /\ cl = <<>>
    /\ panicked = FALSE
    /\ valid = NotCalled
    /\ rev = "lazy"
    /\ LibIdle

NextLazy ==
    \/ GetRealmIndex \/ RealmIndexFail \/ RealmIndexOk
    \/ GetConnIndex \/ ConnIndexFail \/ ConnIndexOk
    \/ LazyParseFail \/ LazyParse \/ Fill \/ RangeRecv \/ RangeBlock
    \/ \E u \in 1..Len(wk) : UnitInvalidRegion(u) \/ UnitRLockNil(u)
    \/ \E name \in CallSlugs, reg \in CallRegions :
        CallInvalidRegion(name, reg) \/ CallNilScanner(name, reg)

SpecLazy == InitLazy /\ [][NextLazy]_vars

-----------------------------------------------------------------------------
(* Statements about the lazy build and its lookups *)

\* GetRealmList has returned, blocks for good, or the process has panicked
AtRest == pc \in {"done", "blocked"} \/ panicked

\* the slugs of the realm index the lazy build resolves by a request of
\* their own: the realms whose id the connected-realm index does not hold
NonRootSlugs == Range(NonRoots(IndexRealms, Range(ReferencedIDs)))

\* every request of the lazy build succeeds, and every reference parses
LazyTransportOk ==
    /\ h.realmIndex.st = "ok"
    /\ h.connIndex.st = "ok"
    /\ IndexSlugsUnique
    /\ FirstAtoiError(h.connIndex.body) = 0
    /\ \A s \in NonRootSlugs :
          /\ RealmResp(h, s).st = "ok"
          /\ FindStringSubmatch(RealmResp(h, s).body)
          /\ Atoi(RealmResp(h, s).body).err = NoErr

\* the cluster id the lazy build is to give slug s of the realm index
LazyClusterOf(s) ==
    IF s \in NonRootSlugs THEN Atoi(RealmResp(h, s).body).id ELSE RealmIDOf(s)

(* C4: Failure propagation, first error wins.  If the fetch of a cluster   *)
(* (eager build) or of a non-root realm (lazy build) returns an error,     *)
(* GetRealmList returns nil and the error of the unit that failed first.   *)
(* Eager build: once GetRealmList has returned after a worker's fetch      *)
(* failed, it returned nil and the error the group kept.  Lazy build: once *)
(* the build is at rest after a unit ran for a realm whose request fails,  *)
(* in a supported region, it returned nil and the transport's error.       *)
C4_FirstErrorWins ==
    /\ ( /\ rev = "eager"
         /\ pc = "done"
         /\ \E w \in Workers : /\ wk[w].pc = "done"
                               /\ wk[w].c # 0
                               /\ ConnRealmResp(h, wk[w].c).st # "ok" )
       => /\ ret = Return(NilRealms, eg.err)
          /\ eg.err # NoErr
    /\ ( /\ rev = "lazy"
         /\ AtRest
         /\ region \in RegionCodes
         /\ \E u \in DOMAIN wk : /\ wk[u].pc # "new"
                                 /\ RealmResp(h, wk[u].slug).st = "err" )
       => /\ ret.returned
          /\ ret.r.nil
          /\ ret.err.msg = "transport"

(* C5: Lazy build result.  Whenever every transport call succeeds, the     *)
(* lazy GetRealmList returns a directory with Region set, AllRealms        *)
(* mapping every slug of the realm index to its realm id, and              *)
(* ConnectedRealms mapping every root slug to its own id and every         *)
(* non-root slug to the cluster id of that realm's connected_realm href.   *)
C5_LazyResult ==
    (rev = "lazy" /\ AtRest /\ cl = <<>> /\ LazyTransportOk) =>
        /\ Built
        /\ ret.r = LazyRealms(region,
                              [s \in IndexSlugs |-> LazyClusterOf(s)],
                              [s \in IndexSlugs |-> RealmIDOf(s)])

(* C6: Idempotence of lookup.  Two calls of ConnectedRealmID for the same  *)
(* slug on the same collection both return, and return the same cluster    *)
(* id, whatever else runs beside them: no call with a supported region     *)
(* ends in a panic, and two calls with the same arguments that returned    *)
(* gave the same id.                                                       *)
C6_LookupIdempotent ==
    \A i \in DOMAIN cl :
        cl[i].region \in RegionCodes =>
            /\ cl[i].st # "panic"
            /\ \A j \in DOMAIN cl :
                  ( /\ cl[j].realmSlug = cl[i].realmSlug
                    /\ cl[j].region = cl[i].region
                    /\ cl[i].st = "returned"
                    /\ cl[j].st = "returned" ) => cl[j].id = cl[i].id

(* C7: ClusterMembership is monotonic.  Once a slug is mapped to a cluster *)
(* id in the membership map (crRealm of the eager build), no step removes  *)
(* the entry or changes it to another cluster id.                          *)
C7_MembershipMonotonic ==
    [][\A s \in DOMAIN crRealm : s \in DOMAIN crRealm' /\ crRealm'[s] = crRealm[s]]_vars

(* C10: Region validation applies to the build.  GetRealmList called with  *)
(* a region that is not a supported two-letter code makes no transport     *)
(* request, and what it returns is nil and an error.                       *)
C10_BuildValidatesRegion ==
    region \notin RegionCodes =>
        /\ nreq = 0
        /\ ret.returned => (ret.r.nil /\ ret.err # NoErr)

-----------------------------------------------------------------------------
(* The sequential revision (src/pkg/bnet/bnet.go)                          *)
(*                                                                         *)
(* GetRealmList reads the two indexes as the other revisions do, writes    *)
(* the root realms into the membership map and returns.  The other realms  *)
(* are resolved by ConnectedRealmID, which searches the service and caches *)
(* the answer in the map.  The map has no lock: callers on goroutines of   *)
(* their own race on it, and the Go runtime may stop the process when it   *)
(* finds a read or a write of the map during another write.                *)

\* the Realms of the sequential revision; Region is left at its zero value
SearchRealms(c, a) ==
    [nil |-> FALSE, Region |-> <<>>, ConnectedRealms |-> c, AllRealms |-> a]

\* strings.TrimSpace and strings.ToLower, on the slugs the callers pass
TrimSpace(s) ==
    CASE s = " realm2 " -> "realm2"
      [] s = " Realm2 " -> "Realm2"
      [] OTHER -> s

ToLower(s) ==
    CASE s = "Realm2" -> "realm2"
      [] s = " Realm2 " -> " realm2 "
      [] OTHER -> s

\* r := strings.ToLower(strings.TrimSpace(realmSlug))
Sanitize(realmSlug) == ToLower(TrimSpace(realmSlug))

\* a decoded search response
SearchBody(pageSize, results) == [PageSize |-> pageSize, Results |-> results]

\* the response of the search endpoint for slug r
SearchResp(tr, r) == Lookup(tr.search, r, Resp("err", SearchBody(0, <<>>)))

\* the positions of sr.Results, counted from 0, whose slug is realmSlug
Matches(sr, realmSlug) ==
    {j \in 0..(Len(sr.Results) - 1) : sr.Results[j + 1].Slug = realmSlug}

\* the index i of the result that is read: the first result whose slug is
\* realmSlug when the page holds more than one, else 0
ResultIndex(sr, realmSlug) ==
    IF sr.PageSize > 1 /\ Matches(sr, realmSlug) # {}
    THEN Min(Matches(sr, realmSlug))
    ELSE 0

\* the loop over rlr.Realms of the sequential GetRealmList, and its return
SearchFill ==
    /\ pc = "fill"
    /\ ~panicked
    /\ ar' = AllRealmsOf(ar, rlr)
    /\ m' = Roots(m, rlr, crLookup)
    /\ ret' = Return(SearchRealms(m', ar'), NoErr)
    /\ pc' = "done"
    /\ UNCHANGED <<libVars, eagerVars, h, region, rlr, crr, lock, eg, wk, requests, nreq,
                   inflight, crLookup, ch, slug, cl, panicked, valid, rev>>


\* Calls of ConnectedRealmID(h, realmSlug, region) on the ConnectedRealms of
\* the directory GetRealmList returned.  Call i is the record cl[i]; its st
\* is "get" while its search request is out, "write" before and "writing"
\* during the assignment c[realmSlug] = id, "returned", or "panic".

\* a call is inside its assignment to the map
Writing == \E j \in DOMAIN cl : cl[j].st = "writing"

\* the directory's ConnectedRealms is the map m itself
WriteMap(c) ==
    /\ m' = c
    /\ ret' = [ret EXCEPT !.r.ConnectedRealms = c]

\* the region is rejected
SearchCallInvalidRegion(name, reg) ==
    /\ Built
    /\ Len(cl) < MaxCalls
    /\ ~panicked
    /\ ~IsValidRegion(reg)
    /\ cl' = Append(cl, Call(name, reg, "returned", -1, Err("invalid region", 0)))
    /\ UNCHANGED <<libVars, eagerVars, h, region, pc, rlr, crr, ar, lock, eg, wk, ret, requests,
                   nreq, inflight, crLookup, m, ch, slug, panicked, valid, rev>>

\* the sanitized slug is in the map: return id, nil
SearchCallHit(name, reg) ==
    /\ Built
    /\ Len(cl) < MaxCalls
    /\ ~panicked
    /\ IsValidRegion(reg)
    /\ Sanitize(name) \in DOMAIN m
    /\ cl' = Append(cl, Call(name, reg, "returned", m[Sanitize(name)], NoErr))
    /\ UNCHANGED <<libVars, eagerVars, h, region, pc, rlr, crr, ar, lock, eg, wk, ret, requests,
                   nreq, inflight, crLookup, m, ch, slug, panicked, valid, rev>>

\* the sanitized slug is not in the map: h.Get(region, "data/wow/search/...")
SearchCallMiss(name, reg) ==
    /\ Built
    /\ Len(cl) < MaxCalls
    /\ ~panicked
    /\ IsValidRegion(reg)
    /\ Sanitize(name) \notin DOMAIN m
    /\ Issue(Len(cl) + 1, Endpoint("search", 0, Sanitize(name)))
    /\ cl' = Append(cl, Call(name, reg, "get", 0, NoErr))
    /\ UNCHANGED <<libVars, eagerVars, h, region, pc, rlr, crr, ar, lock, eg, wk, ret,
                   crLookup, m, ch, slug, panicked, valid, rev>>

\* the read c[r] runs during another call's assignment, and the runtime
\* finds it: fatal error, concurrent map read and map write
SearchCallReadRace(name, reg) ==
    /\ Built
    /\ Len(cl) < MaxCalls
    /\ ~panicked
    /\ IsValidRegion(reg)
    /\ Writing
    /\ cl' = Append(cl, Call(name, reg, "panic", 0, NoErr))
    /\ panicked' = TRUE
    /\ UNCHANGED <<libVars, eagerVars, h, region, pc, rlr, crr, ar, lock, eg, wk, ret, requests,
                   nreq, inflight, crLookup, m, ch, slug, valid, rev>>

\* the search request returns an error, or a body that does not decode
SearchAnswerFail(i) ==
    /\ i \in DOMAIN cl
    /\ cl[i].st = "get"
    /\ ~panicked
    /\ SearchResp(h, Sanitize(cl[i].realmSlug)).st # "ok"
    /\ Answer(i)
    /\ cl' = [cl EXCEPT ![i].st = "returned", ![i].id = -1,
                        ![i].err = Err(IF SearchResp(h, Sanitize(cl[i].realmSlug)).st = "err"
                                       THEN "transport" ELSE "decode", 0)]
    /\ UNCHANGED <<libVars, eagerVars, h, region, pc, rlr, crr, ar, lock, eg, wk, ret,
                   crLookup, m, ch, slug, panicked, valid>>

\* sr.PageSize == 0: return -1, "invalid realm slug"
SearchAnswerNone(i) ==
    /\ i \in DOMAIN cl
    /\ cl[i].st = "get"
    /\ ~panicked
    /\ SearchResp(h, Sanitize(cl[i].realmSlug)).st = "ok"
    /\ SearchResp(h, Sanitize(cl[i].realmSlug)).body.PageSize = 0
    /\ Answer(i)
    /\ cl' = [cl EXCEPT ![i].st = "returned", ![i].id = -1,
                        ![i].err = Err("invalid realm slug", 0)]
    /\ UNCHANGED <<libVars, eagerVars, h, region, pc, rlr, crr, ar, lock, eg, wk, ret,
                   crLookup, m, ch, slug, panicked, valid>>

\* sr.Results[i] with i out of range: the call panics
SearchAnswerOutOfRange(i) ==
    /\ i \in DOMAIN cl
    /\ cl[i].st = "get"
    /\ ~panicked
    /\ LET sr == SearchResp(h, Sanitize(cl[i].realmSlug))
       IN /\ sr.st = "ok"
          /\ sr.body.PageSize # 0
          /\ ResultIndex(sr.body, cl[i].realmSlug) >= Len(sr.body.Results)
    /\ Answer(i)
    /\ cl' = [cl EXCEPT ![i].st = "panic"]
    /\ panicked' = TRUE
    /\ UNCHANGED <<libVars, eagerVars, h, region, pc, rlr, crr, ar, lock, eg, wk, ret,
                   crLookup, m, ch, slug, valid>>

\* id := sr.Results[i].Data.ID
SearchAnswerOk(i) ==
    /\ i \in DOMAIN cl
    /\ cl[i].st = "get"
    /\ ~panicked
    /\ LET sr == SearchResp(h, Sanitize(cl[i].realmSlug))
       IN /\ sr.st = "ok"
          /\ sr.body.PageSize # 0
          /\ ResultIndex(sr.body, cl[i].realmSlug) < Len(sr.body.Results)
          /\ cl' = [cl EXCEPT ![i].st = "write",
                              ![i].id = sr.body.Results[ResultIndex(sr.body, cl[i].realmSlug) + 1].ID]
    /\ Answer(i)
    /\ UNCHANGED <<libVars, eagerVars, h, region, pc, rlr, crr, ar, lock, eg, wk, ret,
                   crLookup, m, ch, slug, panicked, valid>>

\* c[realmSlug] = id begins
SearchWriteBegin(i) ==
    /\ i \in DOMAIN cl
    /\ cl[i].st = "write"
    /\ ~panicked
    /\ cl' = [cl EXCEPT ![i].st = "writing"]
    /\ UNCHANGED <<libVars, eagerVars, h, region, pc, rlr, crr, ar, lock, eg, wk, ret, requests,
                   nreq, inflight, crLookup, m, ch, slug, panicked, valid, rev>>

\* it begins during another call's assignment, and the runtime finds it:
\* fatal error, concurrent map writes
SearchWriteRace(i) ==
    /\ i \in DOMAIN cl
    /\ cl[i].st = "write"
    /\ ~panicked
    /\ Writing
    /\ cl' = [cl EXCEPT ![i].st = "panic"]
    /\ panicked' = TRUE
    /\ UNCHANGED <<libVars, eagerVars, h, region, pc, rlr, crr, ar, lock, eg, wk, ret, requests,
                   nreq, inflight, crLookup, m, ch, slug, valid, rev>>

\* the assignment is done: return id, nil
SearchWriteEnd(i) ==
    /\ i \in DOMAIN cl
    /\ cl[i].st = "writing"
    /\ ~panicked
    /\ WriteMap(Put(m, cl[i].realmSlug, cl[i].id))
    /\ cl' = [cl EXCEPT ![i].st = "returned"]
    /\ UNCHANGED <<libVars, eagerVars, h, region, pc, rlr, crr, ar, lock, eg, wk, requests,
                   nreq, inflight, crLookup, ch, slug, panicked, valid, rev>>


\* the transport of the sequential revision
SearchTransport(realmIndex, connIndex, search) ==
    [Transport(realmIndex, connIndex, EmptyMap, EmptyMap) EXCEPT !.search = search]

\* The search responses for realm2: one result; a page of two results with
\* realm2 second; no result; a page size of one with no result; an error; a
\* body that does not decode.  A search for realm9 finds nothing.
SearchResps ==
    { ("realm2" :> r2) @@ ("realm9" :> Resp("ok", SearchBody(0, <<>>))) :
        r2 \in { Resp("ok", SearchBody(1, <<Realm(1, "realm2")>>)),
                 Resp("ok", SearchBody(2, <<Realm(3, "realm4"), Realm(1, "realm2")>>)),
                 Resp("ok", SearchBody(0, <<>>)),
                 Resp("ok", SearchBody(1, <<>>)),
                 Resp("err", SearchBody(0, <<>>)),
                 Resp("badjson", SearchBody(0, <<>>)) } }

SearchInputs ==
    { Input(reg, SearchTransport(Resp("ok", idx), Resp("ok", refs), sr)) :
        reg \in {us, <<"x", "x">>}, idx \in {FixtureIndex, <<R1, R3>>},
        refs \in LazyRefs, sr \in SearchResps }
    \cup IndexFailInputs

\* the arguments of the callers
SearchCallSlugs == {"realm2", "Realm2", " realm2 ", "realm1-main", "realm9"}

InitSearch ==
    /\ \E in \in SearchInputs : h = in.h /\ region = in.region
    /\ pc = "start"
    /\ rlr = <<>>
    /\ crr = <<>>
    /\ crCh = <<>>
    /\ crc = EmptyMap
    /\ ar = EmptyMap
    /\ crRealm = EmptyMap
    /\ crcCheck = EmptyMap
    /\ lock = NilRWMutex
    /\ eg = NewGroup
    /\ wk = <<>>
    /\ ret = NotReturned
    /\ requests = {}
    /\ nreq = 0
    /\ inflight = {}
    /\ lk = NoLookup
    /\ crLookup = {}
    /\ m = EmptyMap
    /\ ch = <<>>
    /\ slug = ""
    /\ cl = <<>>
    /\ panicked = FALSE
    /\ valid = NotCalled
    /\ rev = "search"
    /\ LibIdle

NextSearch ==
    \/ GetRealmIndex \/ RealmIndexFail \/ RealmIndexOk
    \/ GetConnIndex \/ ConnIndexFail \/ ConnIndexOk
    \/ LazyParseFail \/ LazyParse \/ SearchFill
    \/ \E name \in SearchCallSlugs, reg \in CallRegions :
        \/ SearchCallInvalidRegion(name, reg)
        \/ SearchCallHit(name, reg)
        \/ SearchCallMiss(name, reg)
        \/ SearchCallReadRace(name, reg)
    \/ \E i \in 1..MaxCalls :
        \/ SearchAnswerFail(i)
        \/ SearchAnswerNone(i)
        \/ SearchAnswerOutOfRange(i)
        \/ SearchAnswerOk(i)
        \/ SearchWriteBegin(i)
        \/ SearchWriteRace(i)
        \/ SearchWriteEnd(i)

SpecSearch == InitSearch /\ [][NextSearch]_vars

(* C8: A ConnectedRealmID lookup whose region is anything other than "us"  *)
(* or "eu" returns the error "invalid region" without issuing a transport  *)
(* request and without modifying the membership map: such a call is never  *)
(* waiting for a response nor writing, and what it returned is -1 and the  *)
(* error.                                                                  *)
C8_LookupRejectsRegion ==
    \A i \in DOMAIN cl :
        cl[i].region \notin RegionCodes =>
            cl[i] = Call(cl[i].realmSlug, cl[i].region, "returned", -1, Err("invalid region", 0))

-----------------------------------------------------------------------------
(* RealmSlug (src/pkg/bnet/bnet.go), applied to bounded strings.  A string *)
(* is a sequence of runes; "e^" is the precomposed letter e with acute     *)
(* (U+00E9) and "^" the combining acute accent (U+0301), a nonspacing mark.*)

\* no build and no lookup runs
NoBuild ==
    /\ h = Transport(Resp("err", <<>>), Resp("err", <<>>), EmptyMap, EmptyMap)
    /\ region = <<>>
    /\ pc = "start"
    /\ rlr = <<>>
    /\ crr = <<>>
    /\ crCh = <<>>
    /\ crc = EmptyMap
    /\ ar = EmptyMap
    /\ crRealm = EmptyMap
    /\ crcCheck = EmptyMap
    /\ lock = NilRWMutex
    /\ eg = NewGroup
    /\ wk = <<>>
    /\ ret = NotReturned
    /\ requests = {}
    /\ nreq = 0
    /\ inflight = {}
    /\ lk = NoLookup
    /\ crLookup = {}
    /\ m = EmptyMap
    /\ ch = <<>>
    /\ slug = ""
    /\ cl = <<>>
    /\ panicked = FALSE
    /\ valid = NotCalled

\* the longest string RealmSlug is applied to
MaxSlugLen == 3

\* strings.ToLower, rune by rune
ToLowerRunes(s) == [i \in DOMAIN s |-> IF s[i] = "A" THEN "a" ELSE s[i]]

\* strings.Replace(s, old, new, -1) for a one-rune old
RECURSIVE Replace(_, _, _)
Replace(s, old, new) ==
    IF s = <<>> THEN <<>>
    ELSE (IF Head(s) = old THEN new ELSE <<Head(s)>>) \o Replace(Tail(s), old, new)

\* norm.NFD: a precomposed letter becomes its base letter and its mark
RECURSIVE NFD(_)
NFD(s) ==
    IF s = <<>> THEN <<>>
    ELSE (IF Head(s) = "e^" THEN <<"e", "^">> ELSE <<Head(s)>>) \o NFD(Tail(s))

\* unicode.Is(unicode.Mn, r)
isMn(r) == r = "^"

\* transform.RemoveFunc(isMn)
RECURSIVE RemoveMn(_)
RemoveMn(s) ==
    IF s = <<>> THEN <<>>
    ELSE (IF isMn(Head(s)) THEN <<>> ELSE <<Head(s)>>) \o RemoveMn(Tail(s))

\* norm.NFC: a base letter and the mark that follows it are composed
RECURSIVE NFC(_)
NFC(s) ==
    IF Len(s) < 2 THEN s
    ELSE IF Head(s) = "e" /\ s[2] = "^" THEN <<"e^">> \o NFC(Tail(Tail(s)))
         ELSE <<Head(s)>> \o NFC(Tail(s))

RealmSlug(realm) ==
    LET rs1 == ToLowerRunes(realm)
        rs2 == Replace(rs1, "-", <<>>)
        rs3 == Replace(rs2, "'", <<>>)
        rs4 == Replace(rs3, " ", <<"-">>)
    IN NFC(RemoveMn(NFD(rs4)))

\* the runes of the strings RealmSlug is applied to
SlugRunes == {"a", "A", "-", "'", " ", "e^", "^"}

InitSlug ==
    /\ str \in SeqsUpTo(SlugRunes, MaxSlugLen)
    /\ norm = NotSlugged
    /\ server = NoServer
    /\ bget = NoGet
    /\ rev = "slug"
    /\ NoBuild

\* RealmSlug(str), and RealmSlug of what it returned
CallRealmSlug ==
    /\ ~norm.called
    /\ norm' = [called |-> TRUE, once |-> RealmSlug(str), twice |-> RealmSlug(RealmSlug(str))]
    /\ UNCHANGED <<lazyVars, eagerVars, h, region, pc, rlr, crr, ar, lock, eg, wk, ret,
                   requests, nreq, inflight, str, server, bget>>

NextSlug == CallRealmSlug

SpecSlug == InitSlug /\ [][NextSlug]_vars

(* C11: The slug normalizer is idempotent: RealmSlug(RealmSlug(x)) =       *)
(* RealmSlug(x) for every input string x, among them the strings with      *)
(* spaces, hyphens and apostrophes.                                        *)
C11_SlugIdempotent == norm.called => norm.twice = norm.once

-----------------------------------------------------------------------------
(* BNet.Get (src/pkg/bnet/http.go)                                         *)
(*                                                                         *)
(* The body and the headers of a response are told apart by the number of  *)
(* the request they answer: 1 for the first request of the call, 2 for the *)
(* second; 0 is nil.                                                       *)

\* the longest script of a server
MaxScript == 2

\* the most requests of one call of BNet.Get the model follows
MaxRequests == 4

\* the outcome of request k of the call
Served(k) == IF k <= Len(server.script) THEN server.script[k] ELSE server.rest

\* what Get returns: the error "response code" for a status that is positive
\* and not 200, else body, headers and err as they are
GetReturn_Unchecked(status, headers, body, err) ==
    [returned |-> TRUE, body |-> body, headers |-> headers, err |-> err]

GetReturn(status, headers, body, err) ==
    IF status > 0 /\ status # 200
    THEN [returned |-> TRUE, body |-> 0, headers |-> 0, err |-> Err("response code", status)]
    ELSE [returned |-> TRUE, body |-> body, headers |-> headers, err |-> err]

\* b.get returns (status, headers, body, err) to Get.  The first b.get sets
\* the four variables, and Get calls b.get again when status is 500; the
\* second sets status, body and err and leaves headers.
GetReturns(status, headers, body, err) ==
    IF bget.pc = "get1"
    THEN IF status = 500
         THEN [bget EXCEPT !.pc = "get2", !.status = status, !.headers = headers,
                           !.body = body, !.err = err]
         ELSE [bget EXCEPT !.pc = "done", !.status = status, !.headers = headers,
                           !.body = body, !.err = err,
                           !.out = GetReturn(status, headers, body, err)]
    ELSE [bget EXCEPT !.pc = "done", !.status = status, !.body = body, !.err = err,
                      !.out = GetReturn(status, bget.headers, body, err)]

\* the request b.get is about to send is request n + 1
InGet == bget.pc \in {"get1", "get2"}

\* b.Get(region, endpoint) is called: url, and the first b.get(url)
CallGet ==
    /\ bget.pc = "idle"
    /\ bget' = [bget EXCEPT !.pc = "get1"]
    /\ UNCHANGED <<lazyVars, eagerVars, h, region, pc, rlr, crr, ar, lock, eg, wk, ret,
                   requests, nreq, inflight, str, norm, server>>

\* b.httpClient.Do(req) returns an error: return -1, nil, nil, err
GetDoErr ==
    /\ InGet
    /\ Served(bget.n + 1).kind = "doErr"
    /\ bget' = [GetReturns(-1, 0, 0, Err("do", bget.n + 1)) EXCEPT !.n = bget.n + 1]
    /\ UNCHANGED <<lazyVars, eagerVars, h, region, pc, rlr, crr, ar, lock, eg, wk, ret,
                   requests, nreq, inflight, str, norm, server>>

\* the response is a 401 and refreshOAuth succeeds: return b.get(url)
GetUnauthorized ==
    /\ InGet
    /\ bget.n + 1 < MaxRequests
    /\ Served(bget.n + 1).kind # "doErr"
    /\ Served(bget.n + 1).code = 401
    /\ server.oauth
    /\ bget' = [bget EXCEPT !.n = @ + 1, !.refreshes = @ + 1]
    /\ UNCHANGED <<lazyVars, eagerVars, h, region, pc, rlr, crr, ar, lock, eg, wk, ret,
                   requests, nreq, inflight, str, norm, server>>

\* the response is a 401 and refreshOAuth fails: return -1, nil, nil, err
GetRefreshFail ==
    /\ InGet
    /\ Served(bget.n + 1).kind # "doErr"
    /\ Served(bget.n + 1).code = 401
    /\ ~server.oauth
    /\ bget' = [GetReturns(-1, 0, 0, Err("could not retrieve access token", 0))
                  EXCEPT !.n = bget.n + 1, !.refreshes = bget.refreshes + 1]
    /\ UNCHANGED <<lazyVars, eagerVars, h, region, pc, rlr, crr, ar, lock, eg, wk, ret,
                   requests, nreq, inflight, str, norm, server>>

\* ioutil.ReadAll(response.Body) returns an error: return -1, nil, nil, err
GetReadErr ==
    /\ InGet
    /\ Served(bget.n + 1).kind = "readErr"
    /\ Served(bget.n + 1).code # 401
    /\ bget' = [GetReturns(-1, 0, 0, Err("read", bget.n + 1)) EXCEPT !.n = bget.n + 1]
    /\ UNCHANGED <<lazyVars, eagerVars, h, region, pc, rlr, crr, ar, lock, eg, wk, ret,
                   requests, nreq, inflight, str, norm, server>>

\* return response.StatusCode, response.Header, rawContents, nil
GetResp ==
    /\ InGet
    /\ Served(bget.n + 1).kind = "resp"
    /\ Served(bget.n + 1).code # 401
    /\ bget' = [GetReturns(Served(bget.n + 1).code, bget.n + 1, bget.n + 1, NoErr)
                  EXCEPT !.n = bget.n + 1]
    /\ UNCHANGED <<lazyVars, eagerVars, h, region, pc, rlr, crr, ar, lock, eg, wk, ret,
                   requests, nreq, inflight, str, norm, server>>

\* The requests past MaxRequests are not counted: bget.n = MaxRequests - 1
\* then stands for that many requests or more, and every one of them is
\* answered as server.rest says.

\* b.get has sent as many requests as are counted, the answer to the next is
\* a 401 and the refresh succeeds
Reissuing ==
    /\ InGet
    /\ bget.n + 1 >= MaxRequests
    /\ Served(bget.n + 1).kind # "doErr"
    /\ Served(bget.n + 1).code = 401
    /\ server.oauth

\* an uncounted request is answered with a 401: b.refreshOAuth()
GetRefreshOn ==
    /\ Reissuing
    /\ bget' = [bget EXCEPT !.pc = IF bget.pc = "get1" THEN "refresh1" ELSE "refresh2"]
    /\ UNCHANGED <<lazyVars, eagerVars, h, region, pc, rlr, crr, ar, lock, eg, wk, ret,
                   requests, nreq, inflight, str, norm, server>>

\* the refresh has succeeded: return b.get(url), which sends the request again
GetReissueOn ==
    /\ bget.pc \in {"refresh1", "refresh2"}
    /\ bget' = [bget EXCEPT !.pc = IF bget.pc = "refresh1" THEN "get1" ELSE "get2"]
    /\ UNCHANGED <<lazyVars, eagerVars, h, region, pc, rlr, crr, ar, lock, eg, wk, ret,
                   requests, nreq, inflight, str, norm, server>>

\* the status codes of the servers
StatusCodes == {200, 401, 404, 500}

Outcomes ==
    {Outcome("doErr", 0)} \cup {Outcome(k, c) : k \in {"resp", "readErr"}, c \in StatusCodes}

InitHTTP ==
    /\ \E script \in SeqsUpTo(Outcomes, MaxScript), rest \in Outcomes, oauth \in BOOLEAN :
          server = Server(script, rest, oauth)
    /\ bget = NoGet
    /\ str = <<>>
    /\ norm = NotSlugged
    /\ rev = "http"
    /\ NoBuild

NextHTTP ==
    \/ CallGet \/ GetDoErr \/ GetUnauthorized \/ GetRefreshFail \/ GetReadErr \/ GetResp
    \/ GetRefreshOn \/ GetReissueOn

SpecHTTP == InitHTTP /\ [][NextHTTP]_vars


\* no request of the call was answered with a 401
No401 == \A k \in 1..bget.n : Served(k).kind = "doErr" \/ Served(k).code # 401

\* b.get reports the status of the response to request k: the response came
\* (Do returned no error) and its body was read
Reported(k, code) == Served(k) = Outcome("resp", code)

(* C12: Transport retry.  Absent 401 responses, BNet.Get never issues more *)
(* than two requests; it issues the second exactly when the first response *)
(* has status 500; when the last response has status 200 it returns that   *)
(* response's body and no error, and for any other final status it returns *)
(* an error and no body.  The status of a response is the one b.get        *)
(* reports to Get.                                                         *)
C12_RetryOnce ==
    (bget.pc = "done" /\ No401) =>
        /\ bget.n \in {1, 2}
        /\ bget.n = 2 <=> Reported(1, 500)
        /\ Reported(bget.n, 200) => (bget.out.err = NoErr /\ bget.out.body = bget.n)
        /\ \A c \in StatusCodes \ {200} :
              Reported(bget.n, c) => (bget.out.err # NoErr /\ bget.out.body = 0)

\* the first response is a 500 and the second a 200, whose body is returned
C12_Witness ==
    /\ bget.pc = "done"
    /\ No401
    /\ Reported(1, 500)
    /\ Reported(2, 200)
    /\ bget.out.body = 2
    /\ bget.out.err = NoErr


-----------------------------------------------------------------------------
(* Statements about the worker pool of the eager build *)

(* C13: Every cluster id that parses from the connected-realm index is     *)
(* tried.  In the eager GetRealmList, for any number of index entries,     *)
(* once the workers have finished without error the queue of cluster ids   *)
(* is drained and every parsed cluster id was fetched by a worker.         *)
C13_EveryClusterTried ==
    (rev = "eager" /\ WorkersFinished) =>
        /\ crCh = <<>>
        /\ \A id \in Range(ReferencedIDs) : Endpoint("connected-realm", id, "") \in requests


\* worker w is between rs.lock.Lock() and rs.lock.Unlock(): inside the
\* appends to c, or inside the writes to crcCheck and crRealm
InMutation(w) == wk[w].pc \in {"scrape", "merge"}

\* a step of the concurrent part of the build writes a membership map
WritesMembership ==
    /\ pc \in {"spawn", "wait"}
    /\ (crc' # crc \/ crRealm' # crRealm \/ crcCheck' # crcCheck)

-----------------------------------------------------------------------------
(* Statements about the units of the lazy build *)

\* the request for realm s succeeds and its connected_realm href parses
Resolvable(s) ==
    /\ RealmResp(h, s).st = "ok"
    /\ FindStringSubmatch(RealmResp(h, s).body)
    /\ Atoi(RealmResp(h, s).body).err = NoErr

(* C15: First-writer-wins on a lazy resolution.  Concurrent resolutions of *)
(* a slug that miss the cache all finish without error, and the map holds  *)
(* for the slug the cluster id that was fetched: the goroutines of the     *)
(* lazy build, several of which may read the same slug from the loop       *)
(* variable, do not end in a panic, and one that is done returned no error *)
(* and left the slug in the map with its cluster id.                       *)
C15_FirstWriterWins ==
    \A u \in DOMAIN wk :
        ( /\ rev = "lazy"
          /\ region \in RegionCodes
          /\ wk[u].pc # "new"
          /\ Resolvable(wk[u].slug) ) =>
            /\ wk[u].pc # "panic"
            /\ wk[u].pc = "done" =>
                  /\ wk[u].err = NoErr
                  /\ wk[u].slug \in DOMAIN m
                  /\ m[wk[u].slug] = Atoi(RealmResp(h, wk[u].slug).body).id


-----------------------------------------------------------------------------
(* Statements about the requests in flight *)

(* C16: No lock is held across a network call.  A worker with a transport  *)
(* request in flight holds the scanner's lock neither for reading nor for  *)
(* writing, and the worker that holds the exclusive lock is inside a map   *)
(* mutation.                                                               *)
C16_NoLockAcrossRequest ==
    rev = "eager" =>
        \A w \in Workers :
            /\ w \in inflight => (lock.writer # w /\ w \notin lock.readers)
            /\ lock.writer = w => InMutation(w)

\* a worker has its request in flight while another holds the lock
C16_Witness ==
    \E w, v \in Workers :
        /\ rev = "eager"
        /\ w \in inflight
        /\ wk[w].pc = "fetch"
        /\ lock.writer = v
        /\ InMutation(v)


(* C17: Bounded worker pool.  During an eager GetRealmList at most 5       *)
(* transport requests are in flight at any time, whatever the number of    *)
(* clusters in the connected-realm index.                                  *)
C17_BoundedPool == rev = "eager" => Cardinality(inflight) <= 5

\* the index references more than 5 clusters and 5 requests are in flight
C17_Witness ==
    /\ rev = "eager"
    /\ Len(ReferencedIDs) > 5
    /\ Cardinality(inflight) = 5


\* ---------------------------------------------------------------------
\* Statements about the order in which the maps are filled
\* ---------------------------------------------------------------------

\* a worker has been dispatched or the membership maps have been written
MembershipBegun == eg.started > 0 \/ crc # EmptyMap \/ crRealm # EmptyMap \/ crcCheck # EmptyMap

\* C19: during GetRealmList, AllRealms holds every realm of the realm index
\* before any worker is dispatched and before the first write to the
\* membership maps, and no step after that point writes it.
C19_AllRealmsFirst ==
    [][ rev = "eager" =>
          /\ MembershipBegun' => ar' = AllRealmsOf(EmptyMap, rlr')
          /\ MembershipBegun => ar' = ar ]_vars


\* ---------------------------------------------------------------------
\* Statements about the schedule of the workers
\* ---------------------------------------------------------------------

\* what the worker that fetches cluster c returns: the error of h.Get, of
\* json.Unmarshal or of a blank entry, or nil
UnitError(c) ==
    LET resp == ConnRealmResp(h, c)
    IN IF resp.st = "err" THEN Err("transport", c)
       ELSE IF resp.st # "ok" THEN Err("decode", c)
       ELSE IF FirstBlank(resp.body) # 0 THEN Err("blank realm response", c)
       ELSE NoErr

\* the ids the workers receive: goroutine w receives the w-th id of the
\* channel, and returns after it
DispatchedIDs ==
    SubSeq(ReferencedIDs, 1, IF Len(ReferencedIDs) < threads THEN Len(ReferencedIDs) ELSE threads)

\* The workers run in turn, each from its receive to its return: the maps
\* and the group's error after the workers of ids, from the maps and the
\* error s.
RECURSIVE InTurn(_, _)
InTurn(s, ids) ==
    IF ids = <<>> THEN s
    ELSE LET c == Head(ids)
             resp == ConnRealmResp(h, c)
             blank == IF resp.st = "ok" THEN FirstBlank(resp.body) ELSE 0
             t == [crc |-> IF resp.st # "ok" THEN s.crc
                           ELSE ScrapeAppend(s.crc, c, resp.body,
                                             IF blank # 0 THEN blank - 1 ELSE Len(resp.body)),
                   crcCheck |-> IF UnitError(c) = NoErr
                                THEN MergeCheck(s.crcCheck, SlugsOf(resp.body))
                                ELSE s.crcCheck,
                   crRealm |-> IF UnitError(c) = NoErr
                               THEN MergeCrRealm(s.crRealm, SlugsOf(resp.body), c)
                               ELSE s.crRealm,
                   err |-> IF s.err = NoErr THEN UnitError(c) ELSE s.err]
         IN InTurn(t, Tail(ids))

\* what GetRealmList returns when its workers run in turn
InTurnReturn ==
    LET s == InTurn([crc |-> EmptyMap, crcCheck |-> EmptyMap, crRealm |-> EmptyMap,
                     err |-> NoErr], DispatchedIDs)
    IN IF s.err # NoErr THEN Return(NilRealms, s.err)
       ELSE IF Incomplete(Settle(s.crcCheck, IndexRealms))
            THEN Return(NilRealms, Err("realms not completely scraped", 0))
            ELSE Return(EagerRealms(region, s.crc, AllRealmsOf(EmptyMap, IndexRealms),
                                    s.crRealm), NoErr)

\* GetRealmList has returned after it dispatched its workers
EndedAfterDispatch == rev = "eager" /\ pc = "done" /\ eg.started = threads

\* C20 as stated: whatever the order in which the workers run, GetRealmList
\* ends as it ends when they run in turn: with an error of the same kind, or
\* with the same AllRealms, slug-to-cluster map and per-cluster member lists.
C20_SameOutcome ==
    EndedAfterDispatch => /\ ret.err.msg = InTurnReturn.err.msg
                          /\ ret.r = InTurnReturn.r

\* C20 amended: whatever the order in which the workers run, GetRealmList
\* fails in every order or in none; when it fails because a worker failed,
\* the error is that of one of the failing workers, and otherwise it is the
\* error of the run in turn; when it succeeds the Directory is the same.
C20_SameContent ==
    EndedAfterDispatch =>
        /\ ret.r = InTurnReturn.r
        /\ (ret.err = NoErr) <=> (InTurnReturn.err = NoErr)
        /\ IF \E c \in Range(DispatchedIDs) : UnitError(c) # NoErr
           THEN ret.err \in {UnitError(c) : c \in Range(DispatchedIDs)} \ {NoErr}
           ELSE ret.err = InTurnReturn.err

\* GetRealmList returns an error of another kind than the run in turn
C20_Witness ==
    EndedAfterDispatch /\ ret.err # NoErr /\ ret.err.msg # InTurnReturn.err.msg


\* ---------------------------------------------------------------------
\* Statements about references that do not match the pattern
\* ---------------------------------------------------------------------

\* the cluster ids of the entries of the decoded connected-realm index whose
\* href matches the pattern
MatchingIDs == {crr[i].id : i \in {j \in DOMAIN crr : FindStringSubmatch(crr[j])}}

\* the index phase: no cluster is requested for an entry that does not
\* match, and an error of the parse loop is the Atoi error of an entry that
\* matches
IndexSkipsMalformed ==
    /\ \A e \in requests : e.kind = "connected-realm" => e.id \in MatchingIDs
    /\ (ret.returned /\ ret.err.msg = "atoi: value out of range") =>
          \E i \in DOMAIN crr : FindStringSubmatch(crr[i]) /\ crr[i].digits = "huge"

\* unit u of the lazy build has run connRealmID for a realm whose response
\* decodes and holds an href that does not match
UnitMetMalformed(u) ==
    /\ wk[u].pc # "new"
    /\ IsValidRegion(region)
    /\ RealmResp(h, Sanitize(wk[u].slug)).st = "ok"
    /\ ~FindStringSubmatch(RealmResp(h, Sanitize(wk[u].slug)).body)

\* C21: an entry of the connected-realm index whose href does not match the
\* pattern contributes no unit of work and does not make GetRealmList return
\* an error, while a per-realm response whose href does not match makes the
\* resolution return an error.
C21_SkipThenFatal ==
    /\ IndexSkipsMalformed
    /\ rev = "lazy" =>
          \A u \in DOMAIN wk :
              UnitMetMalformed(u) => (wk[u].pc = "done" /\ wk[u].err # NoErr /\ ~panicked)


\* ---------------------------------------------------------------------
\* Statements about a cluster expansion with a blank entry
\* ---------------------------------------------------------------------

\* worker w has returned from a scrapeConnRealm whose response holds an
\* entry with id == 0 or slug == ""
MetBlank(w) ==
    /\ wk[w].pc = "done"
    /\ ConnRealmResp(h, wk[w].c).st = "ok"
    /\ FirstBlank(ConnRealmResp(h, wk[w].c).body) # 0

LookupsEntered ==
    {wk[u].pc : u \in {v \in DOMAIN wk : wk[v].pc # "new"}} \cup {cl[i].st : i \in DOMAIN cl}

\* C23: every connRealmID that was entered comes to a return, and leaves the
\* scanner's lock held by no one, neither for reading nor for writing, so
\* that a later resolution can take the write lock.
C23_LockReleased ==
    rev = "lazy" =>
        /\ LookupsEntered \subseteq {"done", "returned"}
        /\ (LookupsEntered # {} => lock.writer = 0 /\ lock.readers = {})


\* ---------------------------------------------------------------------
\* Termination of the lazy build
\* ---------------------------------------------------------------------

\* a step of the lazy GetRealmList or of one of its goroutines
LazyBuildStep ==
    \/ GetRealmIndex \/ RealmIndexFail \/ RealmIndexOk
    \/ GetConnIndex \/ ConnIndexFail \/ ConnIndexOk
    \/ LazyParseFail \/ LazyParse \/ Fill \/ RangeRecv \/ RangeBlock
    \/ \E u \in 1..Len(wk) : UnitInvalidRegion(u) \/ UnitRLockNil(u)

\* The lazy revision with a scheduler that lets GetRealmList and its
\* goroutines run whenever they can, and a transport that answers every
\* request.
SpecLazyFair == SpecLazy /\ WF_vars(LazyBuildStep)

\* a caller of ConnectedRealmID has brought the process down
CallerPanicked == \E i \in DOMAIN cl : cl[i].st = "panic"

\* C24: the lazy GetRealmList eventually returns, a Directory or an error,
\* whatever the realm index holds, unless a caller outside the build ends
\* the process first.
C24_LazyTerminates == <>(ret.returned \/ CallerPanicked)


\* ---------------------------------------------------------------------
\* Statements about the key of the cache
\* ---------------------------------------------------------------------

\* call i of ConnectedRealmID has returned a cluster id and no error
Resolved(i) == cl[i].st = "returned" /\ cl[i].err = NoErr

\* C25: once a call of ConnectedRealmID with argument s has returned a
\* cluster id, a later call with the same argument s and a supported region
\* returns from the cache, and issues no transport request.
C25_CacheKeyed ==
    [][ \A i \in DOMAIN cl :
          ( /\ Resolved(i)
            /\ Len(cl') = Len(cl) + 1
            /\ cl'[Len(cl')].realmSlug = cl[i].realmSlug
            /\ IsValidRegion(cl'[Len(cl')].region) )
          => (nreq' = nreq /\ cl'[Len(cl')] = [cl[i] EXCEPT !.region = cl'[Len(cl')].region]) ]_vars


\* ---------------------------------------------------------------------
\* Termination of BNet.Get
\* ---------------------------------------------------------------------

\* BNet.Get with a scheduler that lets the call run, and a server and a
\* token endpoint that answer every request
SpecHTTPFair == SpecHTTP /\ WF_vars(NextHTTP)

\* C26: a call of BNet.Get eventually returns, with every server, also one
\* that answers 401 to every request while every refresh succeeds.
C26_GetReturns == (bget.pc # "idle") ~> bget.out.returned

=============================================================================
